---- MODULE Spec2Model ----
(***************************************************************************)
(* State-machine model of the file-manager HTTP backend                    *)
(* (src/server/server.js): register / login / validateToken / upload /     *)
(* getFile / deleteFile over the Users collection, the Files collection    *)
(* and the GridFS blob store.  Every await of a handler is a separate      *)
(* step, so requests in flight interleave exactly where the event loop     *)
(* lets them.                                                              *)
(*                                                                         *)
(* Library behaviour is modelled as the libraries behave:                  *)
(*  - Express 4: a synchronous throw in a handler is answered 500 by the   *)
(*    default error handler; a rejected promise of an async handler is     *)
(*    not caught, and the request is left without a response.              *)
(*  - jsonwebtoken: sign/verify is an HMAC over the claims; the payload    *)
(*    is JSON, so an ObjectId claim is carried as its string.  The iat     *)
(*    claim is left out: no handler reads it.                              *)
(*  - mongoose casts a string to the ObjectId its schema asks for; the     *)
(*    native collection behind gfs.files does not.                         *)
(*  - multer-gridfs-storage writes to bucket "fs" unless told otherwise.   *)
(***************************************************************************)
EXTENDS Integers, Sequences, FiniteSets, TLC

\* ------------------------------------------------------------- bounds
\* Number of requests the clients send in one run.
MaxReqs == 3
\* Number of requests whose handlers are in progress at one time.
MaxInFlight == 2

\* ------------------------------------------------------- client inputs
Emails == {"alice@x.com", "bob@x.com"}
Passwords == {"pw1", "pw2"}
Names == {"Alice"}
Timestamps == {"t0"}
\* The multipart file part a client may send.
ClientFiles ==
    { [originalname |-> "a.txt", contentType |-> "text/plain", size |-> 1],
      [originalname |-> "b.txt", contentType |-> "image/png", size |-> 2] }

\* ---------------------------------------------------- program constants
JWT_SECRET == "process.env.JWT_SECRET"
AttackerSecret == "a key the client chose"
SaltRounds == 10
\* multer-gridfs-storage's bucket when the options name none.
StorageBucket == "fs"
\* gfs.collection('files')
GfsCollection == "files"
\* gfs.remove({ ..., root: 'uploads' })
DeleteRoot == "uploads"

VARIABLES
    users,   \* the Users collection, in insertion order
    files,   \* the Files collection (File Metadata Store), in insertion order
    blobs,   \* the GridFS <root>.files documents (Blob Store)
    gfs,     \* the module-level gfs handle: <<>> until the connection opens
    reqs,    \* every request received so far, with its handler's position
    nextId   \* ObjectId generator

vars == <<users, files, blobs, gfs, reqs, nextId>>

\* ------------------------------------------------------------ values
\* An optional JavaScript value: <<>> is undefined / null, <<v>> is v.
None == <<>>
Some(v) == <<v>>
IsSome(o) == Len(o) > 0

ObjectId(n) == [type |-> "ObjectId", hex |-> n]
\* ObjectId.prototype.toString / toJSON, and a route parameter
HexString(n) == [type |-> "String", hex |-> n]
ToJSON(id) == HexString(id.hex)
\* mongoose's cast of a value to a schema path of type ObjectId
CastObjectId(v) == ObjectId(v.hex)

Min(S) == CHOOSE x \in S : \A y \in S : x <= y

\* --------------------------------------------------------- bcrypt, jwt
bcryptHash(password, rounds) == [alg |-> "bcrypt", rounds |-> rounds, of |-> password]
bcryptCompare(password, hash) == hash.alg = "bcrypt" /\ hash.of = password

\* The signature segment of a token over `claims` under `key`.
Signature(claims, key) == [key |-> key, over |-> claims]
jwtSign(claims, key) == [claims |-> claims, sig |-> Signature(claims, key)]
jwtVerify_Decode(token, key) == TRUE
jwtVerify(token, key) == token.sig = Signature(token.claims, key)

\* The payload both register and login sign (JSON: the _id as its string).
TokenClaims(user) ==
    [ userId |-> ToJSON(user._id), name |-> user.name, email |-> user.email,
      password |-> user.password, createdAt |-> user.createdAt ]

\* ---------------------------------------------------------- data access
\* User.findOne({ email }): the first match in natural order, or null.
FindOneByEmail_First(us, email) == IF us = <<>> THEN None ELSE Some(us[1])
FindOneByEmail(us, email) ==
    LET idx == { k \in 1..Len(us) : us[k].email = email }
    IN  IF idx = {} THEN None ELSE Some(us[Min(idx)])

\* Whether the Users collection carries a unique index on email.
UserEmailUniqueIndex == FALSE

\* The outcome of newUser.save(): the collection afterwards, or a rejection.
UserSaveRejected(us, doc) ==
    UserEmailUniqueIndex /\ IsSome(FindOneByEmail(us, doc.email))
UserSave(us, doc) == Append(us, doc)

\* fileSchema: every path is required.
FileDocValid(doc) ==
    /\ IsSome(doc.filename) /\ IsSome(doc.originalname)
    /\ IsSome(doc.contentType) /\ IsSome(doc.size) /\ IsSome(doc.owner)

\* { $push: { files: filename } }
PushFile_Set(list, filename) == <<filename>>
PushFile(list, filename) == Append(list, filename)

\* User.findByIdAndUpdate(id, { $push: { files: filename } })
FindByIdAndPush(us, id, filename) ==
    [ k \in 1..Len(us) |->
        IF us[k]._id = CastObjectId(id)
          THEN [us[k] EXCEPT !.files = PushFile(us[k].files, filename)]
          ELSE us[k] ]

\* The GridFsStorage file callback: the name the blob is stored under.
StorageFilename(file) == file.originalname

\* <root>.files.findOne({ _id: id }) on the native collection: no cast.
BlobFindOne(bs, root, id) ==
    LET hit == { b \in bs : b.root = root /\ b._id = id }
    IN  IF hit = {} THEN None ELSE Some(CHOOSE b \in hit : TRUE)

\* gridfs-stream's remove: the id is parsed to an ObjectId, the blob is
\* unlinked under options.root; a missing blob is no error.
BlobRemove(bs, root, id) ==
    { b \in bs : ~(b.root = root /\ b._id = CastObjectId(id)) }

\* ------------------------------------------------------------ requests
\* A request: what the client sent (route, token header, body fields,
\* file part, :id), the handler's position and locals, and the response.
\* usersAtCall is a history field: how many user records existed when a
\* login was called.
BlankReq ==
    [ route |-> "", token |-> None, email |-> "", password |-> "", name |-> "",
      createdAt |-> "", file |-> None, id |-> HexString(0),
      pc |-> "", user |-> None, found |-> None, hashed |-> None,
      reqFile |-> None, newFile |-> None, usersAtCall |-> 0,
      status |-> 0, resToken |-> None, resFile |-> None ]

\* res.status(s).json(...): the handler is finished.
Respond(req, s) ==
    [req EXCEPT !.status = s, !.pc = "done", !.found = None, !.hashed = None]
\* A rejected promise nobody handles: the handler is finished, no response.
Unanswered(req) == [req EXCEPT !.pc = "hung"]

Idx == 1..Len(reqs)
InFlight == Cardinality({ k \in Idx : reqs[k].pc \notin {"done", "hung"} })
Set(i, r) == reqs' = [reqs EXCEPT ![i] = r]

\* The server starts over a database in which Alice registered earlier
\* (the record register("Alice", "alice@x.com", "pw1", t0) leaves), and
\* Alice still holds the token she was given: tokens never expire.
SeedUser ==
    [ _id |-> ObjectId(1), name |-> "Alice", email |-> "alice@x.com",
      password |-> bcryptHash("pw1", SaltRounds), createdAt |-> "t0", files |-> <<>> ]

\* Tokens the server has handed out so far.
Issued ==
    { jwtSign(TokenClaims(SeedUser), JWT_SECRET) }
    \cup { reqs[k].resToken[1] : k \in { j \in Idx : IsSome(reqs[j].resToken) } }
\* Claims nobody was issued, naming a user id of the attacker's choice.
FabricatedClaims ==
    [ userId |-> ToJSON(SeedUser._id), name |-> "Mallory", email |-> "mallory@x.com",
      password |-> bcryptHash("x", SaltRounds), createdAt |-> "t0" ]
\* What a client can put in the token header: a token it was issued, one
\* of those with its signature segment changed, or a token it made up and
\* signed with a key of its own.
ClientTokens ==
    Issued
    \cup { [claims |-> t.claims, sig |-> Signature(t.claims, AttackerSecret)] : t \in Issued }
    \cup { jwtSign(FabricatedClaims, AttackerSecret) }

\* Identifiers a client can name in /files/:id: the id of a File record an
\* upload response gave it, the id of a blob (a guess: no response carries
\* it), or an id of nothing.
KnownIds ==
    { reqs[k].resFile[1]._id.hex :
        k \in { j \in Idx : reqs[j].route = "upload" /\ IsSome(reqs[j].resFile) } }
    \cup { b._id.hex : b \in blobs } \cup {0}

\* ------------------------------------------------------- validateToken
validateToken_NoHeaderCheck(req) ==
    IF IsSome(req.token) /\ ~jwtVerify(req.token[1], JWT_SECRET)
      THEN Respond(req, 401)
      ELSE [req EXCEPT !.user = IF IsSome(req.token) THEN Some(req.token[1].claims) ELSE None,
                       !.pc = "multer"]
validateToken(req) ==
    IF ~IsSome(req.token)
      THEN Respond(req, 401)
      ELSE IF jwtVerify(req.token[1], JWT_SECRET)
             THEN [req EXCEPT !.user = Some(req.token[1].claims), !.pc = "multer"]
             ELSE Respond(req, 401)

\* const owner = req.user.userId
UploadOwner_FileId(req) == ToJSON(req.reqFile[1].id)
UploadOwner(req) == req.user[1].userId

\* The handler's synchronous start: the check for a file, and new File(...).
\* Without req.user the destructuring throws inside the async handler.
NoFileUploaded_Never(req) == FALSE
NoFileUploaded(req) == ~IsSome(req.reqFile)

UploadHandler(req) ==
    IF NoFileUploaded(req) THEN Respond(req, 400)
    ELSE IF ~IsSome(req.user) THEN Unanswered(req)
    ELSE [req EXCEPT !.pc = "save"]

\* new File({ filename, originalname, contentType, size, owner }): a field
\* of req.file that is missing stays undefined.
Field(o, name) == IF IsSome(o) THEN Some(o[1][name]) ELSE None
NewFileDoc(req) ==
    [ filename |-> Field(req.reqFile, "filename"),
      originalname |-> Field(req.reqFile, "originalname"),
      contentType |-> Field(req.reqFile, "contentType"),
      size |-> Field(req.reqFile, "size"),
      owner |-> IF IsSome(req.user) THEN Some(UploadOwner(req)) ELSE None ]

\* --------------------------------------------------------------- Init
Init ==
    /\ users = <<SeedUser>>
    /\ files = <<>>
    /\ blobs = {}
    /\ gfs = None
    /\ reqs = <<>>
    /\ nextId = SeedUser._id.hex + 1

\* connection.once('open', ...)
ConnectionOpen ==
    /\ gfs = None
    /\ gfs' = Some(GfsCollection)
    /\ UNCHANGED <<users, files, blobs, reqs, nextId>>

\* ----------------------------------------------------------- /register
ReqRegister ==
    /\ Len(reqs) < MaxReqs
    /\ InFlight < MaxInFlight
    /\ \E e \in Emails, p \in Passwords, n \in Names, t \in Timestamps :
         reqs' = Append(reqs, [BlankReq EXCEPT !.route = "register", !.email = e,
                                 !.password = p, !.name = n, !.createdAt = t,
                                 !.pc = "findOne"])
    /\ UNCHANGED <<users, files, blobs, gfs, nextId>>

\* if (existingUser)
UserAlreadyExists_Never(existingUser) == FALSE
UserAlreadyExists(existingUser) == IsSome(existingUser)

RegisterFindOne(i) ==
    /\ reqs[i].route = "register" /\ reqs[i].pc = "findOne"
    /\ \E ok \in BOOLEAN :
         IF ~ok THEN Set(i, Unanswered(reqs[i]))
         ELSE IF UserAlreadyExists(FindOneByEmail(users, reqs[i].email))
                THEN Set(i, Respond(reqs[i], 400))
                ELSE Set(i, [reqs[i] EXCEPT !.pc = "hash"])
    /\ UNCHANGED <<users, files, blobs, gfs, nextId>>

RegisterHash(i) ==
    /\ reqs[i].route = "register" /\ reqs[i].pc = "hash"
    /\ Set(i, [reqs[i] EXCEPT !.hashed = Some(bcryptHash(reqs[i].password, SaltRounds)),
                              !.pc = "save"])
    /\ UNCHANGED <<users, files, blobs, gfs, nextId>>

RegisterSave(i) ==
    /\ reqs[i].route = "register" /\ reqs[i].pc = "save"
    /\ LET newUser == [ _id |-> ObjectId(nextId), name |-> reqs[i].name,
                        email |-> reqs[i].email, password |-> reqs[i].hashed[1],
                        createdAt |-> reqs[i].createdAt, files |-> <<>> ]
       IN \E ok \in BOOLEAN :
            IF ~ok \/ UserSaveRejected(users, newUser)
              THEN /\ Set(i, Unanswered(reqs[i]))
                   /\ UNCHANGED <<users, nextId>>
              ELSE /\ users' = UserSave(users, newUser)
                   /\ nextId' = nextId + 1
                   /\ Set(i, [Respond(reqs[i], 201) EXCEPT
                                !.resToken = Some(jwtSign(TokenClaims(newUser), JWT_SECRET))])
    /\ UNCHANGED <<files, blobs, gfs>>

\* -------------------------------------------------------------- /login
ReqLogin ==
    /\ Len(reqs) < MaxReqs
    /\ InFlight < MaxInFlight
    /\ \E e \in Emails, p \in Passwords :
         reqs' = Append(reqs, [BlankReq EXCEPT !.route = "login", !.email = e,
                                 !.password = p, !.pc = "findOne",
                                 !.usersAtCall = Len(users)])
    /\ UNCHANGED <<users, files, blobs, gfs, nextId>>

LoginFindOne(i) ==
    /\ reqs[i].route = "login" /\ reqs[i].pc = "findOne"
    /\ \E ok \in BOOLEAN :
         IF ~ok THEN Set(i, Respond(reqs[i], 500))
         ELSE LET user == FindOneByEmail(users, reqs[i].email)
              IN  IF ~IsSome(user)
                    THEN Set(i, Respond(reqs[i], 400))
                    ELSE Set(i, [reqs[i] EXCEPT !.found = user, !.pc = "compare"])
    /\ UNCHANGED <<users, files, blobs, gfs, nextId>>

LoginCompare(i) ==
    /\ reqs[i].route = "login" /\ reqs[i].pc = "compare"
    /\ LET user == reqs[i].found[1]
       IN  IF ~bcryptCompare(reqs[i].password, user.password)
             THEN Set(i, Respond(reqs[i], 400))
             ELSE Set(i, [Respond(reqs[i], 200) EXCEPT
                            !.resToken = Some(jwtSign(TokenClaims(user), JWT_SECRET))])
    /\ UNCHANGED <<users, files, blobs, gfs, nextId>>

\* ------------------------------------------------------------- /upload
\* The request is dispatched: validateToken runs synchronously; with next()
\* multer starts reading the body.
ReqUpload ==
    /\ Len(reqs) < MaxReqs
    /\ InFlight < MaxInFlight
    /\ \E t \in {None} \cup { Some(x) : x \in ClientTokens },
          f \in {None} \cup { Some(x) : x \in ClientFiles } :
         reqs' = Append(reqs, validateToken([BlankReq EXCEPT !.route = "upload",
                                               !.token = t, !.file = f]))
    /\ UNCHANGED <<users, files, blobs, gfs, nextId>>

\* upload.single('file'): a file part is streamed into the bucket and
\* described in req.file; then the handler runs up to its first await.
UploadMulter(i) ==
    /\ reqs[i].route = "upload" /\ reqs[i].pc = "multer"
    /\ IF ~IsSome(reqs[i].file)
         THEN /\ Set(i, UploadHandler(reqs[i]))
              /\ UNCHANGED <<blobs, nextId>>
         ELSE \E ok \in BOOLEAN :
                IF ~ok
                  THEN /\ Set(i, Respond(reqs[i], 500))
                       /\ UNCHANGED <<blobs, nextId>>
                  ELSE LET f == reqs[i].file[1]
                           stored == [ id |-> ObjectId(nextId),
                                       filename |-> StorageFilename(f),
                                       originalname |-> f.originalname,
                                       contentType |-> f.contentType,
                                       size |-> f.size ]
                       IN  /\ blobs' = blobs \cup
                                { [ root |-> StorageBucket, _id |-> stored.id,
                                    filename |-> stored.filename,
                                    contentType |-> stored.contentType,
                                    length |-> stored.size ] }
                           /\ nextId' = nextId + 1
                           /\ Set(i, UploadHandler([reqs[i] EXCEPT !.reqFile = Some(stored)]))
    /\ UNCHANGED <<users, files, gfs>>

\* await newFile.save()
UploadSave(i) ==
    /\ reqs[i].route = "upload" /\ reqs[i].pc = "save"
    /\ LET doc == NewFileDoc(reqs[i])
       IN \E ok \in BOOLEAN :
            IF ~ok \/ ~FileDocValid(doc)
              THEN /\ Set(i, Unanswered(reqs[i]))
                   /\ UNCHANGED <<files, nextId>>
              ELSE LET saved == [ _id |-> ObjectId(nextId),
                                  filename |-> doc.filename[1],
                                  originalname |-> doc.originalname[1],
                                  contentType |-> doc.contentType[1],
                                  size |-> doc.size[1],
                                  owner |-> CastObjectId(doc.owner[1]) ]
                   IN  /\ files' = Append(files, saved)
                       /\ nextId' = nextId + 1
                       /\ Set(i, [reqs[i] EXCEPT !.newFile = Some(saved), !.pc = "push"])
    /\ UNCHANGED <<users, blobs, gfs>>

\* await User.findByIdAndUpdate(...); res.status(201)
UploadPush_Rollback(i) ==
    /\ reqs[i].route = "upload" /\ reqs[i].pc = "push"
    /\ \E ok \in BOOLEAN :
         IF ~ok
           THEN /\ Set(i, Unanswered(reqs[i]))
                /\ files' = SelectSeq(files, LAMBDA f : f._id # reqs[i].newFile[1]._id)
                /\ UNCHANGED users
           ELSE /\ users' = FindByIdAndPush(users, reqs[i].user[1].userId,
                                            reqs[i].newFile[1].filename)
                /\ Set(i, [Respond(reqs[i], 201) EXCEPT !.resFile = reqs[i].newFile])
                /\ UNCHANGED files
    /\ UNCHANGED <<blobs, gfs, nextId>>
UploadPush(i) ==
    /\ reqs[i].route = "upload" /\ reqs[i].pc = "push"
    /\ \E ok \in BOOLEAN :
         IF ~ok
           THEN /\ Set(i, Unanswered(reqs[i]))
                /\ UNCHANGED users
           ELSE /\ users' = FindByIdAndPush(users, reqs[i].user[1].userId,
                                            reqs[i].newFile[1].filename)
                /\ Set(i, [Respond(reqs[i], 201) EXCEPT !.resFile = reqs[i].newFile])
    /\ UNCHANGED <<files, blobs, gfs, nextId>>

\* ----------------------------------------------------------- /files/:id
\* The handler calls into gfs at once: a TypeError while gfs is undefined,
\* which Express answers 500. The route has no validateToken: a token
\* header, when the client sends one, is never read.
ReqGetFile ==
    /\ Len(reqs) < MaxReqs
    /\ InFlight < MaxInFlight
    /\ \E id \in KnownIds, t \in {None} \cup { Some(x) : x \in Issued } :
         LET r == [BlankReq EXCEPT !.route = "getFile", !.id = HexString(id), !.token = t]
         IN  reqs' = Append(reqs, IF IsSome(gfs) THEN [r EXCEPT !.pc = "findOne"]
                                                  ELSE Respond(r, 500))
    /\ UNCHANGED <<users, files, blobs, gfs, nextId>>

GetFileCallback_RequiresToken(i) ==
    /\ reqs[i].route = "getFile" /\ reqs[i].pc = "findOne"
    /\ \E ok \in BOOLEAN :
         IF ~IsSome(reqs[i].token) THEN Set(i, Respond(reqs[i], 401))
         ELSE IF ~ok THEN Set(i, Respond(reqs[i], 500))
         ELSE LET file == BlobFindOne(blobs, gfs[1], reqs[i].id)
              IN  IF ~IsSome(file)
                    THEN Set(i, Respond(reqs[i], 404))
                    ELSE Set(i, [Respond(reqs[i], 200) EXCEPT !.resFile = file])
    /\ UNCHANGED <<users, files, blobs, gfs, nextId>>
GetFileCallback(i) ==
    /\ reqs[i].route = "getFile" /\ reqs[i].pc = "findOne"
    /\ \E ok \in BOOLEAN :
         IF ~ok THEN Set(i, Respond(reqs[i], 500))
         ELSE LET file == BlobFindOne(blobs, gfs[1], reqs[i].id)
              IN  IF ~IsSome(file)
                    THEN Set(i, Respond(reqs[i], 404))
                    ELSE Set(i, [Respond(reqs[i], 200) EXCEPT !.resFile = file])
    /\ UNCHANGED <<users, files, blobs, gfs, nextId>>

ReqDeleteFile ==
    /\ Len(reqs) < MaxReqs
    /\ InFlight < MaxInFlight
    /\ \E id \in KnownIds :
         LET r == [BlankReq EXCEPT !.route = "deleteFile", !.id = HexString(id)]
         IN  reqs' = Append(reqs, IF IsSome(gfs) THEN [r EXCEPT !.pc = "remove"]
                                                  ELSE Respond(r, 500))
    /\ UNCHANGED <<users, files, blobs, gfs, nextId>>

DeleteFileCallback_Cascade(i) ==
    /\ reqs[i].route = "deleteFile" /\ reqs[i].pc = "remove"
    /\ blobs' = BlobRemove(blobs, DeleteRoot, reqs[i].id)
    /\ files' = SelectSeq(files, LAMBDA f : f._id # CastObjectId(reqs[i].id))
    /\ Set(i, Respond(reqs[i], 200))
    /\ UNCHANGED <<users, gfs, nextId>>
DeleteFileCallback(i) ==
    /\ reqs[i].route = "deleteFile" /\ reqs[i].pc = "remove"
    /\ \E ok \in BOOLEAN :
         IF ~ok
           THEN /\ Set(i, Respond(reqs[i], 500))
                /\ UNCHANGED blobs
           ELSE /\ blobs' = BlobRemove(blobs, DeleteRoot, reqs[i].id)
                /\ Set(i, Respond(reqs[i], 200))
    /\ UNCHANGED <<users, files, gfs, nextId>>

RegisterInFlight ==
    \E k \in Idx : reqs[k].route = "register" /\ reqs[k].pc \notin {"done", "hung"}

\* Every step but the arrival of a register request.
Step ==
    \/ ConnectionOpen
    \/ \E i \in Idx : RegisterFindOne(i)
    \/ \E i \in Idx : RegisterHash(i)
    \/ \E i \in Idx : RegisterSave(i)
    \/ ReqLogin
    \/ \E i \in Idx : LoginFindOne(i)
    \/ \E i \in Idx : LoginCompare(i)
    \/ ReqUpload
    \/ \E i \in Idx : UploadMulter(i)
    \/ \E i \in Idx : UploadSave(i)
    \/ \E i \in Idx : UploadPush(i)
    \/ ReqGetFile
    \/ \E i \in Idx : GetFileCallback(i)
    \/ ReqDeleteFile
    \/ \E i \in Idx : DeleteFileCallback(i)

Next == ReqRegister \/ Step

\* Clients that call register one call after the other.
NextSerialRegister == (~RegisterInFlight /\ ReqRegister) \/ Step

Spec == Init /\ [][Next]_vars
SpecSerialRegister == Init /\ [][NextSerialRegister]_vars
\* ===================================================================
\* Properties
\* ===================================================================
IsUpload(r) == r.route = "upload"
Finished(r) == r.pc \in {"done", "hung"}
\* The user a token's userId claim names.
TokenUser(r) == CastObjectId(r.token[1].claims.userId)
UploadsDoneBy(id) ==
    { i \in Idx : IsUpload(reqs[i]) /\ reqs[i].status = 201 /\ TokenUser(reqs[i]) = id }
Occurrences(seq, x) == Cardinality({ k \in 1..Len(seq) : seq[k] = x })
UsersWithEmail(e) == { k \in 1..Len(users) : users[k].email = e }

\* C1: every upload answered 201 created exactly one File record, owned by
\* the user its token names and stored under the blob's filename; each
\* user's file list holds one entry per upload that user completed (its
\* storage filename), and the Files collection one record per upload that
\* saved one, however the uploads interleave.
C1_UploadCreatesOneOwnedRecord ==
    /\ \A i \in Idx :
         IsUpload(reqs[i]) /\ reqs[i].status = 201 =>
           LET rec == reqs[i].resFile[1]
           IN  /\ Cardinality({ k \in 1..Len(files) : files[k]._id = rec._id }) = 1
               /\ \E k \in 1..Len(files) : files[k] = rec
               /\ rec.owner = TokenUser(reqs[i])
               /\ \E b \in blobs : b._id = reqs[i].reqFile[1].id /\ b.filename = rec.filename
               /\ \E u \in 1..Len(users) : users[u]._id = rec.owner
    /\ \A u \in 1..Len(users) :
         /\ Len(users[u].files) = Cardinality(UploadsDoneBy(users[u]._id))
         /\ \A i \in UploadsDoneBy(users[u]._id) :
              Occurrences(users[u].files, reqs[i].resFile[1].filename)
                = Cardinality({ j \in UploadsDoneBy(users[u]._id) :
                                  reqs[j].resFile[1].filename = reqs[i].resFile[1].filename })
    /\ Len(files) = Cardinality({ i \in Idx : IsUpload(reqs[i]) /\ IsSome(reqs[i].newFile) })

\* Two users' uploads overlapped: one was answered 201 while an upload of
\* another user, received earlier, had saved its record and not yet pushed.
C1_Witness ==
    \E i, j \in Idx :
      /\ j < i /\ IsUpload(reqs[i]) /\ IsUpload(reqs[j])
      /\ reqs[i].status = 201 /\ reqs[j].pc = "push"
      /\ TokenUser(reqs[i]) # TokenUser(reqs[j])

NoTokenUpload(r) == IsUpload(r) /\ ~IsSome(r.token)
C2_Answered401 ==
    \A i \in Idx :
      NoTokenUpload(reqs[i]) =>
        /\ reqs[i].pc = "done" /\ reqs[i].status = 401
        /\ ~IsSome(reqs[i].user) /\ ~IsSome(reqs[i].reqFile) /\ ~IsSome(reqs[i].newFile)
C2_StoresUnchanged ==
    \A i \in 1..Len(reqs') :
      NoTokenUpload(reqs'[i]) /\ (i > Len(reqs) \/ reqs'[i] # reqs[i])
        => UNCHANGED <<blobs, files, users>>
\* C2: an upload without a token header is answered 401 on arrival, never
\* reaches multer or the handler, and no step of it changes the Blob Store,
\* the Files collection or any user's file list.
C2_NoTokenUploadWritesNothing == [](C2_Answered401) /\ [][C2_StoresUnchanged]_vars

C2_Witness ==
    \E i \in Idx :
      NoTokenUpload(reqs[i]) /\ IsSome(reqs[i].file) /\ reqs[i].status = 401

\* C3: when register calls for one email follow one another, a call that
\* comes after an answered one is answered 400 without a token, and exactly
\* one user record has that email.
C3_SecondRegisterRejected ==
    \A i, j \in Idx :
      ( /\ i < j
        /\ reqs[i].route = "register" /\ reqs[j].route = "register"
        /\ reqs[i].email = reqs[j].email
        /\ reqs[i].pc = "done" /\ reqs[j].pc = "done" )
      => /\ reqs[j].status = 400
         /\ ~IsSome(reqs[j].resToken)
         /\ Cardinality(UsersWithEmail(reqs[j].email)) = 1

C3_Witness ==
    \E i, j \in Idx :
      /\ i < j
      /\ reqs[i].route = "register" /\ reqs[j].route = "register"
      /\ reqs[i].email = reqs[j].email
      /\ reqs[i].status = 201 /\ reqs[j].status = 400

\* C4: no two user records have the same email.
C4_EmailIsUniqueKey ==
    \A e \in Emails : Cardinality(UsersWithEmail(e)) <= 1

\* C5: a login that was answered (not with a server error), for each user
\* registered under its email when it was called: with that user's password
\* it is answered 200 with a token that verifies and carries that user's
\* userId; with another password it is answered 400 without a token.
C5_LoginMatchesRegisteredUser ==
    \A i \in Idx :
      reqs[i].route = "login" /\ reqs[i].pc = "done" /\ reqs[i].status # 500 =>
        \A k \in 1..reqs[i].usersAtCall :
          users[k].email = reqs[i].email =>
            IF bcryptCompare(reqs[i].password, users[k].password)
              THEN /\ reqs[i].status = 200
                   /\ IsSome(reqs[i].resToken)
                   /\ jwtVerify(reqs[i].resToken[1], JWT_SECRET)
                   /\ reqs[i].resToken[1].claims.userId = ToJSON(users[k]._id)
              ELSE reqs[i].status = 400 /\ ~IsSome(reqs[i].resToken)

\* C6: an upload whose token the server never issued (a changed signature
\* segment, or a made-up token) is answered 401 on arrival: next() is not
\* called and no claims are attached to the request.
C6_ForgedTokenRejected ==
    \A i \in Idx :
      IsUpload(reqs[i]) /\ IsSome(reqs[i].token) /\ reqs[i].token[1] \notin Issued =>
        /\ reqs[i].pc = "done" /\ reqs[i].status = 401
        /\ ~IsSome(reqs[i].user) /\ ~IsSome(reqs[i].reqFile) /\ ~IsSome(reqs[i].newFile)

\* A token with an issued token's claims and another signature segment.
C6_Witness ==
    \E i \in Idx :
      /\ IsUpload(reqs[i]) /\ IsSome(reqs[i].token) /\ IsSome(reqs[i].file)
      /\ reqs[i].token[1] \notin Issued
      /\ \E t \in Issued : t.claims = reqs[i].token[1].claims
      /\ reqs[i].status = 401

TokenNoFileUpload(r) ==
    IsUpload(r) /\ IsSome(r.token) /\ r.token[1] \in Issued /\ ~IsSome(r.file)
C7_Answered400 ==
    \A i \in Idx :
      TokenNoFileUpload(reqs[i]) =>
        /\ reqs[i].pc \in {"multer", "done"}
        /\ reqs[i].pc = "done" => reqs[i].status = 400
        /\ ~IsSome(reqs[i].reqFile) /\ ~IsSome(reqs[i].newFile)
C7_StoresUnchanged ==
    \A i \in 1..Len(reqs') :
      TokenNoFileUpload(reqs'[i]) /\ (i > Len(reqs) \/ reqs'[i] # reqs[i])
        => UNCHANGED <<blobs, files, users>>
\* C7: an upload with an issued token and no file part is answered 400, and
\* no step of it changes the Blob Store, the Files collection or any user's
\* file list.
C7_NoFileUploadHasNoEffect == [](C7_Answered400) /\ [][C7_StoresUnchanged]_vars

C7_Witness ==
    \E i \in Idx : TokenNoFileUpload(reqs[i]) /\ reqs[i].status = 400

\* C8: a getFile for the id an upload response returned, answered by the
\* store (not a 500), is answered 200 with metadata of the uploaded size and
\* content type.
C8_GetFileFindsUpload ==
    \A i, j \in Idx :
      ( /\ reqs[i].route = "getFile" /\ reqs[i].pc = "done" /\ reqs[i].status # 500
        /\ IsUpload(reqs[j]) /\ reqs[j].status = 201
        /\ reqs[i].id = ToJSON(reqs[j].resFile[1]._id) )
      => /\ reqs[i].status = 200
         /\ IsSome(reqs[i].resFile)
         /\ reqs[i].resFile[1].length = reqs[j].file[1].size
         /\ reqs[i].resFile[1].contentType = reqs[j].file[1].contentType

\* C9: two uploads answered 201 have different storage filenames.
C9_StorageFilenamesDistinct ==
    \A i, j \in Idx :
      ( /\ i # j
        /\ IsUpload(reqs[i]) /\ reqs[i].status = 201
        /\ IsUpload(reqs[j]) /\ reqs[j].status = 201 )
      => reqs[i].resFile[1].filename # reqs[j].resFile[1].filename

\* C10: a request whose handler has finished has been answered.
C10_EveryRequestAnswered ==
    \A i \in Idx : Finished(reqs[i]) => reqs[i].status # 0

\* C11: every File record's owner is the _id of a user record in the Users
\* collection.
C11_OwnerReferencesUser ==
    \A k \in 1..Len(files) : \E u \in 1..Len(users) : users[u]._id = files[k].owner

\* A File record owned by a user who registered after the server started.
C11_Witness ==
    \E k \in 1..Len(files) : \E u \in 2..Len(users) : users[u]._id = files[k].owner

\* The blob an upload stored, and the File record it saved.
BlobOf(r) == { b \in blobs : IsSome(r.reqFile) /\ b._id = r.reqFile[1].id }
RecordOf(r) == { k \in 1..Len(files) : IsSome(r.newFile) /\ files[k] = r.newFile[1] }

\* C12: once an upload has finished, its blob and its File record both
\* exist or neither does.
C12_NoOrphanedRecords ==
    \A i \in Idx :
      IsUpload(reqs[i]) /\ Finished(reqs[i]) =>
        (BlobOf(reqs[i]) # {} <=> RecordOf(reqs[i]) # {})

\* C13: a deleteFile the store answered, for an id no blob has, is answered
\* 404; it is not answered 200.
C13_DeleteMissingIsNotFound ==
    \A i \in Idx :
      ( /\ reqs[i].route = "deleteFile" /\ reqs[i].pc = "done" /\ reqs[i].status # 500
        /\ \A b \in blobs : ToJSON(b._id) # reqs[i].id )
      => reqs[i].status = 404

IsDeleteFile(r) == r.route = "deleteFile"
\* C14: no step of a deleteFile request, whatever its id and its outcome,
\* changes the Files collection or the Users collection (file lists
\* included).
C14_DeleteFileLeavesRecords ==
    [][ \A i \in 1..Len(reqs') :
          IsDeleteFile(reqs'[i]) /\ (i > Len(reqs) \/ reqs'[i] # reqs[i])
            => UNCHANGED <<files, users>> ]_vars

\* A deleteFile for the id of a File record, and one for the id of that
\* upload's blob, were both answered 200; the record and the filename in its
\* owner's list are still there.
C14_Witness ==
    \E i, j, d \in Idx :
      /\ IsUpload(reqs[j]) /\ reqs[j].status = 201
      /\ IsDeleteFile(reqs[i]) /\ reqs[i].status = 200
      /\ IsDeleteFile(reqs[d]) /\ reqs[d].status = 200
      /\ reqs[i].id = ToJSON(reqs[j].resFile[1]._id)
      /\ reqs[d].id = ToJSON(reqs[j].reqFile[1].id)
      /\ RecordOf(reqs[j]) # {}
      /\ \E u \in 1..Len(users) :
           /\ users[u]._id = reqs[j].resFile[1].owner
           /\ Occurrences(users[u].files, reqs[j].resFile[1].filename) = 1

\* An upload that saved its File record and has not appended to the owner's
\* list: the append is still to come, or it failed.
SavedNotPushed(r) == IsUpload(r) /\ IsSome(r.newFile) /\ r.status # 201
PushFailed(r) == SavedNotPushed(r) /\ r.pc = "hung"
C15_RecordWithoutListEntry ==
    \A i \in Idx :
      SavedNotPushed(reqs[i]) =>
        /\ RecordOf(reqs[i]) # {}
        /\ \A u \in 1..Len(users) :
             users[u]._id = reqs[i].newFile[1].owner =>
               Occurrences(users[u].files, reqs[i].newFile[1].filename)
                 = Cardinality({ j \in UploadsDoneBy(users[u]._id) :
                                   reqs[j].resFile[1].filename = reqs[i].newFile[1].filename })
C15_FilesOnlyGrow ==
    Len(files') >= Len(files) /\ SubSeq(files', 1, Len(files)) = files
\* C15: after an upload saved its File record, while its append to the
\* owner's list has not happened or has failed, the record is in the Files
\* collection and the owner's list has no entry from this upload (it holds
\* that filename only as often as the owner's completed uploads stored it);
\* no step ever removes or changes a File record.
C15_UploadNotRolledBack == [](C15_RecordWithoutListEntry) /\ [][C15_FilesOnlyGrow]_vars

\* The append failed: the File record is there, its filename is not in the
\* owner's list.
C15_Witness ==
    \E i \in Idx :
      /\ PushFailed(reqs[i])
      /\ RecordOf(reqs[i]) # {}
      /\ \E u \in 1..Len(users) :
           /\ users[u]._id = reqs[i].newFile[1].owner
           /\ Occurrences(users[u].files, reqs[i].newFile[1].filename) = 0

IsBlobRoute(r) == r.route \in {"getFile", "deleteFile"}
\* C16: no getFile or deleteFile handler runs while gfs is unassigned (gfs,
\* once assigned, stays assigned: a request received while it is unassigned
\* had its handler run without it).
C16_NoBlobHandlerBeforeOpen ==
    (\E i \in Idx : IsBlobRoute(reqs[i])) => IsSome(gfs)

IsGetFile(r) == r.route = "getFile"
\* The entry getFile's lookup finds for an id in the current store.
Entry(id) == BlobFindOne(blobs, GfsCollection, id)
C17_Step ==
    \A i \in 1..Len(reqs') :
      IsGetFile(reqs'[i]) /\ (i > Len(reqs) \/ reqs'[i] # reqs[i]) =>
        /\ UNCHANGED <<blobs, files, users>>
        /\ reqs'[i].pc = "done" =>
             /\ reqs'[i].status \in {200, 404, 500}
             /\ reqs'[i].status = 200 =>
                  IsSome(Entry(reqs'[i].id)) /\ reqs'[i].resFile = Entry(reqs'[i].id)
             /\ reqs'[i].status = 404 => ~IsSome(Entry(reqs'[i].id))
\* C17: no step of a getFile request, with or without a token header,
\* changes the Blob Store, the Files collection or the Users collection; it
\* is never refused for its token or the file's owner: unless the store
\* fails (500) it is answered 200 with the entry its id has in the store, or
\* 404 when the store has no entry with that id.
C17_GetFileIsPureRead == [][C17_Step]_vars

\* Two getFile requests for the id of a blob an upload stored, one without
\* a token and one with a token, answered by the store with the same status.
C17_Witness ==
    \E i, j, k \in Idx :
      /\ IsUpload(reqs[k]) /\ reqs[k].status = 201
      /\ IsGetFile(reqs[i]) /\ IsGetFile(reqs[j])
      /\ reqs[i].id = ToJSON(reqs[k].reqFile[1].id) /\ reqs[j].id = reqs[i].id
      /\ ~IsSome(reqs[i].token) /\ IsSome(reqs[j].token)
      /\ reqs[i].pc = "done" /\ reqs[j].pc = "done"
      /\ reqs[i].status # 500 /\ reqs[j].status = reqs[i].status

IsLogin(r) == r.route = "login"
\* No user record has the email: records are never removed, so none had it
\* when the login looked.
C18_UnknownEmailRefused ==
    \A i \in Idx :
      ( /\ IsLogin(reqs[i]) /\ reqs[i].pc = "done" /\ reqs[i].status # 500
        /\ UsersWithEmail(reqs[i].email) = {} )
      => reqs[i].status = 400 /\ ~IsSome(reqs[i].resToken)
C18_StoresUnchanged ==
    \A i \in 1..Len(reqs') :
      IsLogin(reqs'[i]) /\ (i > Len(reqs) \/ reqs'[i] # reqs[i])
        => UNCHANGED <<users, files, blobs>>
\* C18: a login the store answered, for an email no user record has, is
\* answered 400 without a token; and no step of a login, whatever its
\* outcome, changes the Users collection, the Files collection or the Blob
\* Store.
C18_LoginUnknownEmail == [](C18_UnknownEmailRefused) /\ [][C18_StoresUnchanged]_vars

\* A login with the seed user's password under an email nobody registered,
\* answered 400.
C18_Witness ==
    \E i \in Idx :
      /\ IsLogin(reqs[i]) /\ reqs[i].status = 400
      /\ UsersWithEmail(reqs[i].email) = {}
      /\ bcryptCompare(reqs[i].password, SeedUser.password)
====
